---- MODULE Spec2Model ----
(***************************************************************************)
(* Model of the diurne tokenizer (src/src/parser.rs).                      *)
(*                                                                         *)
(* The input text is a sequence of characters; a character is named by a   *)
(* string ("a", ":", "CR", "LF", "LS" for U+2028, "PS" for U+2029, ...).    *)
(* The Peekable<CharIndices> of the Tokenizer is the number `pos` of        *)
(* characters already taken from it, with `offset`, the byte index that     *)
(* CharIndices reports for the next character.                             *)
(* One step of the model is one call of Tokenizer::next.                   *)
(*                                                                         *)
(* ConfigSpec models validate_config (src/src/main.rs): a tag name is a     *)
(* natural number, ordered as the strings are; one step is one call.        *)
(***************************************************************************)
EXTENDS Integers, Sequences, FiniteSets, TLC

VARIABLES
    text,     \* the source string the Tokenizer was built over
    pos,      \* self.source: characters already consumed from the iterator
    offset,   \* self.source: byte index CharIndices gives the next character
    column,   \* self.column
    line,     \* self.line
    ret,      \* outcome of the last call of next: "init", "Some", "None", "panic"
    tokens,   \* history: the tokens returned so far, in order
    calls,    \* history: number of calls of next made so far
    bumps,    \* history: the calls of bump made by the last call of next
    parsed,   \* the ParsedConfig handed to validate_config
    result    \* what validate_config returned: Ok(Config), Err(UnknownTag), or none yet

vars == <<text, pos, offset, column, line, ret, tokens, calls, bumps,
          parsed, result>>

----------------------------------------------------------------------------
(* Bounds *)

MaxLen == 3      \* longest enumerated input, in characters
MaxCalls == 7    \* calls of next made on one Tokenizer
MaxTagName == 2  \* tag names of the enumerated configs are 1..MaxTagName
MaxTags == 2     \* longest enumerated tag list
MaxCompound == 2 \* longest enumerated tag list of an alias
MaxTail == 2     \* characters that follow the first one after a long line

(* column and line are u16.  start and end are u32 casts of the byte index; *)
(* every byte index of the model is far below 2^32, where the cast is the   *)
(* identity, so as_u32 keeps the value.                                     *)
U16 == 65536

(* TagIndex is u8 *)
U8 == 256

as_u32(n) == n

----------------------------------------------------------------------------
(* Characters *)

Letters == {"a", "b", "d", "e", "f", "n", "o", "r", "s", "t", "u", "é"}
Digits == {"0", "1", "2"}
Spaces == {" ", "CR", "LF", "LS", "PS"}

\* the characters inputs are enumerated over
Sigma == {"a", "é", "#", "1", ":", "*", ".", " ", "CR", "LF", "LS"}

\* char::len_utf8
Width(c) ==
    CASE c = "é" -> 2
      [] c \in {"LS", "PS"} -> 3
      [] OTHER -> 1

\* the byte index char_indices gives to the character that follows the first p
RECURSIVE ByteOffset(_, _)
ByteOffset(s, p) ==
    IF p = 0 THEN 0 ELSE ByteOffset(s, p - 1) + Width(s[p])

ByteLen(s) == ByteOffset(s, Len(s))

is_whitespace(c) == c \in Spaces

is_digit(c) == c \in Digits

\* not in the source: a valid identifier constituent is a letter, a digit or '_'
is_ident(c) == c \in Letters \cup Digits \cup {"_"}

is_break(c) ==
    CASE c = "LF" -> TRUE
      [] c = "CR" -> TRUE
      [] c = "LS" -> TRUE
      [] c = "PS" -> TRUE
      [] OTHER -> FALSE

----------------------------------------------------------------------------
(* The cursor: the fields of the Tokenizer that bump reads and writes.     *)
(* panic is set when the assert_eq! of bump fails.                         *)

Cursor ==
    [pos |-> pos, off |-> offset, line |-> line, column |-> column,
     panic |-> FALSE]

\* self.source.peek(): <<idx, c>> of the next character, <<>> at the end
peek(cur) ==
    IF cur.pos < Len(text)
    THEN <<cur.off, text[cur.pos + 1]>>
    ELSE <<>>

\* what bump returns: <<c>> for Some(c), <<>> for None
bump_ret(cur) ==
    IF cur.pos >= Len(text) THEN <<>> ELSE <<text[cur.pos + 1]>>

\* bump that counts a line break as a column too: column is not reset
bump_no_reset(cur) ==
    IF cur.pos >= Len(text)
    THEN cur
    ELSE LET c == text[cur.pos + 1]
             col1 == (cur.column + 1) % U16
             off1 == cur.off + Width(c)
         IN  IF is_break(c)
             THEN IF c = "CR"
                  THEN LET more == cur.pos + 1 < Len(text)
                           pos2 == IF more THEN cur.pos + 2 ELSE cur.pos + 1
                           off2 == IF more THEN off1 + Width(text[cur.pos + 2])
                                   ELSE off1
                       IN  IF more /\ text[cur.pos + 2] = "LF"
                           THEN [pos |-> pos2, off |-> off2,
                                 line |-> (cur.line + 1) % U16,
                                 column |-> col1, panic |-> FALSE]
                           ELSE [pos |-> pos2, off |-> off2, line |-> cur.line,
                                 column |-> col1, panic |-> TRUE]
                  ELSE [pos |-> cur.pos + 1, off |-> off1,
                        line |-> (cur.line + 1) % U16,
                        column |-> col1, panic |-> FALSE]
             ELSE [pos |-> cur.pos + 1, off |-> off1, line |-> cur.line,
                   column |-> col1, panic |-> FALSE]

bump(cur) ==
    IF cur.pos >= Len(text)
    THEN cur
    ELSE LET c == text[cur.pos + 1]
             col1 == (cur.column + 1) % U16
             off1 == cur.off + Width(c)
         IN  IF is_break(c)
             THEN IF c = "CR"
                  THEN LET more == cur.pos + 1 < Len(text)
                           pos2 == IF more THEN cur.pos + 2 ELSE cur.pos + 1
                           off2 == IF more THEN off1 + Width(text[cur.pos + 2])
                                   ELSE off1
                       IN  IF more /\ text[cur.pos + 2] = "LF"
                           THEN [pos |-> pos2, off |-> off2,
                                 line |-> (cur.line + 1) % U16,
                                 column |-> 0, panic |-> FALSE]
                           ELSE [pos |-> pos2, off |-> off2, line |-> cur.line,
                                 column |-> col1, panic |-> TRUE]
                  ELSE [pos |-> cur.pos + 1, off |-> off1,
                        line |-> (cur.line + 1) % U16,
                        column |-> 0, panic |-> FALSE]
             ELSE [pos |-> cur.pos + 1, off |-> off1, line |-> cur.line,
                   column |-> col1, panic |-> FALSE]

make_token(cur, start, end, kind) ==
    [kind |-> kind, column |-> cur.column, line |-> cur.line,
     start |-> start, end |-> end]

\* the closures scan_spaces, scan_ident and scan_digits hand to scan_until
until(kind, c) ==
    CASE kind = "Spaces" -> ~is_whitespace(c)
      [] kind = "Ident" -> ~is_ident(c)
      [] kind = "Digits" -> ~is_digit(c)

\* scan_loop that bumps before it tests: the character that ends the run is
\* consumed too
RECURSIVE scan_loop_overrun(_, _, _, _)
scan_loop_overrun(cur, last, kind, trace) ==
    IF cur.panic \/ peek(cur) = <<>>
    THEN [cur |-> cur, last |-> last, trace |-> trace]
    ELSE LET idx == peek(cur)[1]
             c == peek(cur)[2]
             t == Append(trace, [before |-> cur, after |-> bump(cur)])
         IN  IF until(kind, c)
             THEN [cur |-> bump(cur), last |-> last, trace |-> t]
             ELSE scan_loop_overrun(bump(cur), as_u32(idx), kind, t)

\* scan_loop with an `if` in place of the `while`: at most one character
scan_loop_once(cur, last, kind, trace) ==
    IF cur.panic \/ peek(cur) = <<>> \/ until(kind, peek(cur)[2])
    THEN [cur |-> cur, last |-> last, trace |-> trace]
    ELSE [cur |-> bump(cur), last |-> as_u32(peek(cur)[1]),
          trace |-> Append(trace, [before |-> cur, after |-> bump(cur)])]

\* the loop of scan_until
RECURSIVE scan_loop(_, _, _, _)
scan_loop(cur, last, kind, trace) ==
    IF cur.panic \/ peek(cur) = <<>>
    THEN [cur |-> cur, last |-> last, trace |-> trace]
    ELSE LET idx == peek(cur)[1]
             c == peek(cur)[2]
         IN  IF until(kind, c)
             THEN [cur |-> cur, last |-> last, trace |-> trace]
             ELSE scan_loop(bump(cur), as_u32(idx), kind,
                            Append(trace, [before |-> cur, after |-> bump(cur)]))

\* scan_until returning start..last, without the + 1
scan_until_exclusive(cur, start, kind) ==
    LET r == scan_loop(cur, start, kind, <<>>)
    IN  [cur |-> r.cur, start |-> start, end |-> r.last,
         trace |-> r.trace]

scan_until(cur, start, kind) ==
    LET r == scan_loop(cur, start, kind, <<>>)
    IN  [cur |-> r.cur, start |-> start, end |-> r.last + 1,
         trace |-> r.trace]

\* scan_spaces, scan_ident, scan_digits: scan, then make the token
scan_token(cur, start, kind) ==
    LET r == scan_until(cur, start, kind)
    IN  [cur |-> r.cur, trace |-> r.trace,
         token |-> make_token(r.cur, r.start, r.end, kind)]

----------------------------------------------------------------------------
(* validate_config *)

\* the empty ParsedConfig, and no call of validate_config made yet
NoParsed == [tags |-> <<>>, aliases |-> <<>>]
NoResult == [kind |-> "none"]

\* Vec::sort: element i goes to place rank[i], equal elements keep their order
\* (\o <<>> leaves a sequence as it is; TLC then computes it once, as a tuple)
sort(s) ==
    LET rank == [i \in DOMAIN s |->
                    Cardinality({j \in DOMAIN s :
                                    s[j] < s[i] \/ (s[j] = s[i] /\ j <= i)})] \o <<>>
    IN  [k \in DOMAIN s |-> s[CHOOSE i \in DOMAIN s : rank[i] = k]] \o <<>>

\* Vec::dedup: an element equal to the one before it is removed
dedup(s) ==
    LET kept == {i \in DOMAIN s : i = 1 \/ s[i] # s[i - 1]}
        place == [i \in DOMAIN s |-> Cardinality({j \in kept : j <= i})] \o <<>>
    IN  [k \in 1..Cardinality(kept) |->
            s[CHOOSE i \in kept : place[i] = k]] \o <<>>

\* position that stops at the first tag not below the one looked for
position_lower_bound(tags, tag) ==
    IF \E i \in DOMAIN tags : tags[i] >= tag
    THEN (CHOOSE i \in DOMAIN tags :
              tags[i] >= tag /\ \A j \in 1..(i - 1) : tags[j] < tag) - 1
    ELSE -1

\* tags.iter().position(..): the 0-based index of the first equal tag, -1 for None
position(tags, tag) ==
    IF \E i \in DOMAIN tags : tags[i] = tag
    THEN (CHOOSE i \in DOMAIN tags :
              tags[i] = tag /\ \A j \in 1..(i - 1) : tags[j] # tag) - 1
    ELSE -1

\* index as TagIndex
as_TagIndex(index) == index % U8

\* the tags of a compound that position does not find, by place in the compound
unknown(tags, compound) ==
    {i \in DOMAIN compound : position(tags, compound[i]) = -1}

\* the map and collect over one compound, when every tag is found
tag_indices(tags, compound) ==
    [i \in DOMAIN compound |-> as_TagIndex(position(tags, compound[i]))]

\* PathBuf::set_extension("db") on the path <<stem, extension>>
config_path == <<"diurne", "toml">>

set_extension(path, ext) == <<path[1], ext>>

\* One call.  The aliases are visited in the order of the HashMap, which is
\* any order: the first compound with a tag that is not found ends the call
\* with that tag.
validate_config ==
    /\ result.kind = "none"
    /\ LET tags == dedup(sort(parsed.tags))
           failing == {a \in DOMAIN parsed.aliases :
                          unknown(tags, parsed.aliases[a]) # {}}
       IN  IF failing # {}
           THEN \E a \in failing :
                   LET first == CHOOSE i \in unknown(tags, parsed.aliases[a]) :
                                    \A j \in unknown(tags, parsed.aliases[a]) : i <= j
                   IN  result' = [kind |-> "Err", name |-> parsed.aliases[a][first]]
           ELSE result' =
                   [kind |-> "Ok",
                    tags |-> tags,
                    aliases |-> [a \in DOMAIN parsed.aliases |->
                                    tag_indices(tags, parsed.aliases[a])],
                    database_path |-> set_extension(config_path, "db")]
    /\ UNCHANGED <<text, pos, offset, column, line, ret, tokens, calls, bumps,
                   parsed>>

AliasNames == {"x", "y"}

SeqsUpTo(S, n) == UNION {[1..k -> S] : k \in 0..n}

\* a tag list one longer than TagIndex can count, and aliases into it
ManyTags == [i \in 1..(U8 + 1) |-> i]

ParsedConfigs ==
    {[tags |-> t, aliases |-> al] :
        t \in SeqsUpTo(1..MaxTagName, MaxTags),
        al \in UNION {[D -> SeqsUpTo(1..MaxTagName, MaxCompound)] :
                         D \in SUBSET AliasNames}}
      \cup {[tags |-> ManyTags, aliases |-> al] :
               al \in {[a \in {"x"} |-> <<U8 + 1>>],
                       [a \in {"x"} |-> <<1, U8>>]}}

ConfigInit ==
    /\ parsed \in ParsedConfigs
    /\ result = NoResult
    /\ text = <<>>
    /\ pos = 0
    /\ offset = 0
    /\ column = 0
    /\ line = 0
    /\ ret = "init"
    /\ tokens = <<>>
    /\ calls = 0
    /\ bumps = <<>>

ConfigNext == validate_config

ConfigSpec == ConfigInit /\ [][ConfigNext]_vars

----------------------------------------------------------------------------
(* Tokenizer::new and the inputs *)

Example1 == <<"f", "o", "o", "d", ":", "r", "e", "s", "t", "a", "u", "r",
              "a", "n", "t", ".", "*">>
Example2 == <<" ", " ", "1", "2", ":", "a", "b">>
ExampleCRLF == <<"a", "CR", "LF", "b">>
ExampleCR == <<"a", "CR", "b">>

Inputs ==
    UNION {[1..n -> Sigma] : n \in 0..MaxLen}
        \cup {Example1, Example2, ExampleCRLF, ExampleCR}

Init ==
    /\ text \in Inputs
    /\ pos = 0
    /\ offset = 0
    /\ column = 0
    /\ line = 0
    /\ ret = "init"
    /\ tokens = <<>>
    /\ calls = 0
    /\ bumps = <<>>
    /\ parsed = NoParsed
    /\ result = NoResult

----------------------------------------------------------------------------
(* Tokenizer::next, one action per arm of its match *)

CanCall == calls < MaxCalls /\ ret # "panic"

\* next_end over an iterator that starts over once it is exhausted
next_end_restart ==
    /\ CanCall
    /\ peek(Cursor) = <<>>
    /\ calls' = calls + 1
    /\ ret' = "None"
    /\ bumps' = <<>>
    /\ pos' = 0
    /\ offset' = 0
    /\ UNCHANGED <<text, column, line, tokens, parsed, result>>

\* the cursor is at the end: None
next_end ==
    /\ CanCall
    /\ peek(Cursor) = <<>>
    /\ calls' = calls + 1
    /\ ret' = "None"
    /\ bumps' = <<>>
    /\ UNCHANGED <<text, pos, offset, column, line, tokens, parsed, result>>

\* next_punct without its call of bump
next_punct_nobump(ch, kind) ==
    /\ CanCall
    /\ peek(Cursor) # <<>>
    /\ peek(Cursor)[2] = ch
    /\ LET start == as_u32(peek(Cursor)[1])
       IN  tokens' = Append(tokens, make_token(Cursor, start, start + 1, kind))
    /\ ret' = "Some"
    /\ bumps' = <<>>
    /\ calls' = calls + 1
    /\ UNCHANGED <<text, pos, offset, line, column, parsed, result>>

\* ':' , '*' and '.': the token is made first, then one bump
next_punct(ch, kind) ==
    /\ CanCall
    /\ peek(Cursor) # <<>>
    /\ peek(Cursor)[2] = ch
    /\ LET start == as_u32(peek(Cursor)[1])
           token == make_token(Cursor, start, start + 1, kind)
           cur == bump(Cursor)
       IN  /\ pos' = cur.pos
           /\ offset' = cur.off
           /\ line' = cur.line
           /\ column' = cur.column
           /\ ret' = "Some"
           /\ tokens' = Append(tokens, token)
           /\ bumps' = <<[before |-> Cursor, after |-> cur]>>
    /\ calls' = calls + 1
    /\ UNCHANGED <<text, parsed, result>>

next_colon == next_punct(":", "Colon")

next_star == next_punct("*", "Star")

next_dot == next_punct(".", "Dot")

\* the three scanning arms
next_scan(kind) ==
    /\ CanCall
    /\ peek(Cursor) # <<>>
    /\ LET start == as_u32(peek(Cursor)[1])
           r == scan_token(Cursor, start, kind)
       IN  /\ pos' = r.cur.pos
           /\ offset' = r.cur.off
           /\ line' = r.cur.line
           /\ column' = r.cur.column
           /\ bumps' = r.trace
           /\ IF r.cur.panic
              THEN ret' = "panic" /\ tokens' = tokens
              ELSE ret' = "Some" /\ tokens' = Append(tokens, r.token)
    /\ calls' = calls + 1
    /\ UNCHANGED <<text, parsed, result>>

Punct == {":", "*", "."}

next_spaces ==
    /\ peek(Cursor) # <<>>
    /\ peek(Cursor)[2] \notin Punct
    /\ is_whitespace(peek(Cursor)[2])
    /\ next_scan("Spaces")

next_digits ==
    /\ peek(Cursor) # <<>>
    /\ peek(Cursor)[2] \notin Punct
    /\ ~is_whitespace(peek(Cursor)[2])
    /\ is_digit(peek(Cursor)[2])
    /\ next_scan("Digits")

next_ident ==
    /\ peek(Cursor) # <<>>
    /\ peek(Cursor)[2] \notin Punct
    /\ ~is_whitespace(peek(Cursor)[2])
    /\ ~is_digit(peek(Cursor)[2])
    /\ next_scan("Ident")

Next ==
    \/ next_end
    \/ next_colon
    \/ next_star
    \/ next_dot
    \/ next_spaces
    \/ next_digits
    \/ next_ident

Spec == Init /\ [][Next]_vars

----------------------------------------------------------------------------
(* A Tokenizer at the end of a long line.  Over a text that begins with     *)
(* U16 - 1 colons, U16 - 1 calls of next have each returned a Colon token   *)
(* and bumped once: the cursor is after the colons, at column U16 - 1 of    *)
(* line 0.  LongSpec starts there (the histories start there, empty) and    *)
(* goes on with the calls of next over what follows: a ':', '*' or '.' and *)
(* up to MaxTail characters more.                                          *)

TailSigma == {"a", "1", ":", " ", "LF"}

LongLine(tail) ==
    [i \in 1..(U16 - 1 + Len(tail)) |->
        IF i <= U16 - 1 THEN ":" ELSE tail[i - (U16 - 1)]] \o <<>>

LongInit ==
    /\ text \in {LongLine(<<p>> \o t) :
                    p \in Punct, t \in SeqsUpTo(TailSigma, MaxTail)}
    /\ pos = U16 - 1
    /\ offset = U16 - 1
    /\ column = U16 - 1
    /\ line = 0
    /\ ret = "Some"
    /\ tokens = <<>>
    /\ calls = 0
    /\ bumps = <<>>
    /\ parsed = NoParsed
    /\ result = NoResult

LongSpec == LongInit /\ [][Next]_vars

----------------------------------------------------------------------------
TypeOK ==
    /\ pos \in 0..Len(text)
    /\ offset >= pos
    /\ column \in 0..(U16 - 1)
    /\ line \in 0..(U16 - 1)
    /\ ret \in {"init", "Some", "None", "panic"}
    /\ calls \in 0..MaxCalls

----------------------------------------------------------------------------
(* Properties *)

LastToken == tokens[Len(tokens)]

\* the character under the cursor, "" at the end of the text
Under == IF pos < Len(text) THEN text[pos + 1] ELSE ""

\* C1: the tokens partition the text: the first starts at byte 0, each ends
\* where the next starts, the last ends at the byte length of the text, and
\* the token just returned ends at the byte offset of the first character the
\* cursor has not consumed.
C1_Partition ==
    /\ Len(tokens) > 0 => tokens[1].start = 0
    /\ \A i \in 1..(Len(tokens) - 1) : tokens[i].end = tokens[i + 1].start
    /\ (ret = "None" /\ Len(tokens) > 0) => LastToken.end = ByteLen(text)
    /\ ret = "Some" => LastToken.end = ByteOffset(text, pos)

\* C2: the span of every returned token carries the line and column the
\* cursor had before the call consumed any character of the token.
C2_SpanAtTokenStart ==
    [][ret' = "Some" =>
          /\ tokens'[Len(tokens')].line = line
          /\ tokens'[Len(tokens')].column = column]_vars

LoneCRAt(p) ==
    /\ p < Len(text)
    /\ text[p + 1] = "CR"
    /\ (p + 1 < Len(text) => text[p + 2] # "LF")

\* C3: a carriage return not followed by a line feed never aborts: the
\* advance consumes the CR alone, adds one to line and sets column to 0;
\* in "a\rb" the token of b is at line 1, column 0.
C3_LoneCarriageReturn ==
    /\ ret # "panic"
    /\ \A i \in DOMAIN bumps :
          LoneCRAt(bumps[i].before.pos) =>
              bumps[i].after = [pos |-> bumps[i].before.pos + 1,
                                off |-> bumps[i].before.off + 1,
                                line |-> bumps[i].before.line + 1,
                                column |-> 0, panic |-> FALSE]
    /\ (text = ExampleCR /\ ret = "None") =>
          /\ Len(tokens) > 0
          /\ LastToken.start = 2
          /\ LastToken.line = 1
          /\ LastToken.column = 0

CRLFAt(p) ==
    /\ p + 1 < Len(text)
    /\ text[p + 1] = "CR"
    /\ text[p + 2] = "LF"

\* C4: a carriage return followed by a line feed is one break: one advance
\* consumes both, adds exactly one to line and sets column to 0; in
\* "a\r\nb" the token of b is at line 1, column 0.
C4_CRLFSingleBreak ==
    /\ \A i \in DOMAIN bumps :
          CRLFAt(bumps[i].before.pos) =>
              bumps[i].after = [pos |-> bumps[i].before.pos + 2,
                                off |-> bumps[i].before.off + 2,
                                line |-> bumps[i].before.line + 1,
                                column |-> 0, panic |-> FALSE]
    /\ (text = ExampleCRLF /\ ret = "None") =>
          /\ Len(tokens) > 0
          /\ LastToken.start = 3
          /\ LastToken.line = 1
          /\ LastToken.column = 0

\* C5: every call that returns a token has consumed at least one character,
\* so a text of n characters yields at most n tokens.
C5_FiniteSequence ==
    /\ ret = "Some" =>
          /\ Len(bumps) >= 1
          /\ bumps[1].after.pos > bumps[1].before.pos
    /\ Len(tokens) <= Len(text)

\* C6: once next has returned None, every later call returns None and
\* leaves the cursor position, line and column as they were.
C6_IdempotentExhaustion ==
    [][ret = "None" =>
          /\ ret' = "None"
          /\ pos' = pos
          /\ line' = line
          /\ column' = column
          /\ tokens' = tokens]_vars

\* None has been returned more than once, after at least one token
C6_Witness ==
    /\ ret = "None"
    /\ Len(tokens) >= 1
    /\ calls >= Len(tokens) + 2

\* C7: across the tokens of a pass, start strictly increases, line never
\* decreases, and column decreases only when line increases.
C7_Monotonic ==
    \A i \in 1..(Len(tokens) - 1) :
        /\ tokens[i + 1].start > tokens[i].start
        /\ tokens[i + 1].line >= tokens[i].line
        /\ tokens[i + 1].column < tokens[i].column =>
              tokens[i + 1].line > tokens[i].line

PunctKind(c) ==
    CASE c = ":" -> "Colon"
      [] c = "*" -> "Star"
      [] c = "." -> "Dot"

\* C8: when ':', '*' or '.' is under the cursor, next returns a token of
\* kind Colon, Star or Dot of one byte, and consumes that character only.
C8_PunctuationAtomic ==
    [][(Under \in Punct /\ calls' = calls + 1) =>
          /\ ret' = "Some"
          /\ Len(tokens') = Len(tokens) + 1
          /\ tokens'[Len(tokens')].kind = PunctKind(Under)
          /\ tokens'[Len(tokens')].start = ByteOffset(text, pos)
          /\ tokens'[Len(tokens')].end = ByteOffset(text, pos) + 1
          /\ pos' = pos + 1]_vars

\* "**" has given two Star tokens, [0,1) and [1,2)
C8_Witness ==
    /\ text = <<"*", "*">>
    /\ Len(tokens) = 2
    /\ <<tokens[1].kind, tokens[1].start, tokens[1].end>> = <<"Star", 0, 1>>
    /\ <<tokens[2].kind, tokens[2].start, tokens[2].end>> = <<"Star", 1, 2>>
    /\ pos = 2

\* number of consecutive decimal digits of the text after its first p characters
RECURSIVE DigitRun(_)
DigitRun(p) ==
    IF p < Len(text) /\ text[p + 1] \in Digits THEN 1 + DigitRun(p + 1) ELSE 0

\* C9: when a decimal digit is under the cursor, next returns one Digits
\* token that covers the whole maximal run of digits starting there and
\* nothing else, and the cursor stops at the character after the run.
C9_DigitsMaximalRun ==
    [][(Under \in Digits /\ calls' = calls + 1) =>
          /\ ret' = "Some"
          /\ Len(tokens') = Len(tokens) + 1
          /\ tokens'[Len(tokens')].kind = "Digits"
          /\ tokens'[Len(tokens')].start = ByteOffset(text, pos)
          /\ tokens'[Len(tokens')].end = ByteOffset(text, pos + DigitRun(pos))
          /\ pos' = pos + DigitRun(pos)]_vars

\* a run of two digits followed by another character has just been returned
C9_Witness ==
    /\ ret = "Some"
    /\ LastToken.kind = "Digits"
    /\ LastToken.end - LastToken.start = 2
    /\ pos < Len(text)
    /\ text[pos + 1] \notin Digits
    /\ text[pos] \in Digits

Expected1 == <<<<"Ident", 0, 4>>, <<"Colon", 4, 5>>, <<"Ident", 5, 15>>,
               <<"Dot", 15, 16>>, <<"Star", 16, 17>>>>
Expected2 == <<<<"Spaces", 0, 2>>, <<"Digits", 2, 4>>, <<"Colon", 4, 5>>,
               <<"Ident", 5, 7>>>>

\* the calls made so far have returned the first tokens of e, then None
Yields(e) ==
    /\ Len(tokens) <= Len(e)
    /\ \A i \in 1..Len(tokens) :
          <<tokens[i].kind, tokens[i].start, tokens[i].end>> = e[i]
    /\ calls <= Len(e) => (Len(tokens) = calls /\ ret \in {"init", "Some"})
    /\ calls > Len(e) => (Len(tokens) = Len(e) /\ ret = "None")

\* C10: "food:restaurant.*" yields Ident[0,4) Colon[4,5) Ident[5,15)
\* Dot[15,16) Star[16,17) and then None; "  12:ab" yields Spaces[0,2)
\* Digits[2,4) Colon[4,5) Ident[5,7) and then None.
C10_Examples ==
    /\ text = Example1 => Yields(Expected1)
    /\ text = Example2 => Yields(Expected2)

\* the first example has been tokenized to its end
C10_Witness ==
    /\ text = Example1
    /\ Len(tokens) = 5
    /\ ret = "None"

\* C11: every returned token has start < end.
C11_NonEmptySpan ==
    \A i \in DOMAIN tokens : tokens[i].start < tokens[i].end

\* a punctuation token and a scanned token have both been returned
C11_Witness ==
    /\ \E i \in DOMAIN tokens : tokens[i].kind \in {"Colon", "Star", "Dot"}
    /\ \E i \in DOMAIN tokens : tokens[i].kind \in {"Spaces", "Digits", "Ident"}

\* the kind the first character of a token decides
Classify(c) ==
    CASE c = ":" -> "Colon"
      [] c = "*" -> "Star"
      [] c = "." -> "Dot"
      [] c \in {" ", "CR", "LF", "LS", "PS"} -> "Spaces"
      [] c \in {"0", "1", "2"} -> "Digits"
      [] OTHER -> "Ident"

\* the characters of the text that have a byte in [start, end)
CharsIn(start, end) ==
    {i \in 1..Len(text) :
        ByteOffset(text, i - 1) < end /\ ByteOffset(text, i) > start}

\* C12: the lexer is total: a call of next with a character under the
\* cursor returns a token (there is no error outcome), of the kind its first
\* character decides; every character in a Spaces token is whitespace and
\* every character in a Digits token is a decimal digit.
C12_Total ==
    [][(Under # "" /\ calls' = calls + 1) =>
          /\ ret' = "Some"
          /\ Len(tokens') = Len(tokens) + 1
          /\ LET t == tokens'[Len(tokens')]
             IN  /\ t.kind = Classify(Under)
                 /\ t.kind = "Spaces" =>
                       \A i \in CharsIn(t.start, t.end) :
                           text[i] \in {" ", "CR", "LF", "LS", "PS"}
                 /\ t.kind = "Digits" =>
                       \A i \in CharsIn(t.start, t.end) :
                           text[i] \in {"0", "1", "2"}]_vars

Listed(tag) == \E i \in DOMAIN parsed.tags : parsed.tags[i] = tag

\* C15: validate_config returns Err(UnknownTag { name }), and no Config,
\* when some alias names a tag that is not in the tag list, name being such
\* a tag; it returns Ok when every tag of every alias is in the tag list.
C15_UnknownTag ==
    result.kind # "none" =>
        LET unlisted == UNION {{<<a, i>> : i \in {j \in DOMAIN parsed.aliases[a] :
                                                      ~Listed(parsed.aliases[a][j])}} :
                                  a \in DOMAIN parsed.aliases}
        IN  /\ unlisted # {} =>
                  /\ result.kind = "Err"
                  /\ DOMAIN result = {"kind", "name"}
                  /\ \E u \in unlisted : result.name = parsed.aliases[u[1]][u[2]]
            /\ unlisted = {} => result.kind = "Ok"

\* two aliases, one of them naming an unlisted tag after a listed one: Err
C15_Witness ==
    /\ result.kind = "Err"
    /\ Len(parsed.tags) >= 2
    /\ DOMAIN parsed.aliases = {"x", "y"}
    /\ \E a \in DOMAIN parsed.aliases :
          /\ Len(parsed.aliases[a]) = 2
          /\ Listed(parsed.aliases[a][1])
          /\ parsed.aliases[a][2] = result.name

\* C16: when validate_config returns Ok(config), config.tags at the index
\* stored for place i of alias a is the tag name the parsed alias a has at
\* place i, for any number of tags.
C16_IndicesResolve ==
    result.kind = "Ok" =>
        \A a \in DOMAIN parsed.aliases :
            \A i \in DOMAIN parsed.aliases[a] :
                /\ result.aliases[a][i] + 1 \in DOMAIN result.tags
                /\ result.tags[result.aliases[a][i] + 1] = parsed.aliases[a][i]

\* the line break characters among the characters p+1..q of the text
BreakChars(p, q) == {i \in (p + 1)..q : text[i] \in {"LF", "CR", "LS", "PS"}}

\* the line breaks among them: a line feed right after a carriage return
\* belongs to the break of the carriage return
Breaks(p, q) ==
    {i \in BreakChars(p, q) : ~(text[i] = "LF" /\ i > 1 /\ text[i - 1] = "CR")}

\* C17: the position counters never overflow or wrap.  Over every call of
\* next that returns, column and line advance by the true counts (column
\* becomes the number of characters consumed since the last line break, line
\* grows by the number of line breaks consumed), and the span of the token
\* carries the counts and the byte offsets of the place the token starts and
\* ends at.
C17_NoOverflow ==
    [][(calls' = calls + 1 /\ ret' # "panic") =>
          /\ column' = IF BreakChars(pos, pos') = {}
                       THEN column + (pos' - pos)
                       ELSE pos' - (CHOOSE i \in BreakChars(pos, pos') :
                                       \A j \in BreakChars(pos, pos') : j <= i)
          /\ line' = line + Cardinality(Breaks(pos, pos'))
          /\ ret' = "Some" =>
                /\ tokens'[Len(tokens')].column = column
                /\ tokens'[Len(tokens')].line = line
                /\ tokens'[Len(tokens')].start = offset
                /\ tokens'[Len(tokens')].end = offset']_vars

====
